---- MODULE Spec2Model ----
(***************************************************************************)
(* Converters for quadratic programs: InequalityToEquality,                *)
(* IntegerToBinary, LinearEqualityToPenalty, MaximizeToMinimize and the    *)
(* QuadraticProgramToQubo wrapper, with the convert / interpret protocol   *)
(* of docs/tutorials/02_converters_for_quadratic_programs.ipynb.           *)
(*                                                                         *)
(* A problem is a record                                                   *)
(*   vars  : sequence of [name, kind, lb, ub, unbounded]                   *)
(*   sense : "max" | "min"                                                 *)
(*   const, lin, quad : the objective; lin[i] is the coefficient of        *)
(*           variable i, quad[i][j] (i <= j) the coefficient of x_i*x_j,   *)
(*           an off-diagonal entry holding the sum of both symmetric       *)
(*           entries; quad[i][j] = 0 for j < i                             *)
(*   cons  : sequence of [name, lin, sense, rhs], rhs = [num, den], the    *)
(*           rational num/den (the tutorial uses 5.5 and 2.5)              *)
(* Coefficients and bounds are integers.                                   *)
(***************************************************************************)
EXTENDS Integers, Sequences, FiniteSets, TLC

VARIABLES
    qp,             \* the problem handed to the converters
    qp_eq,          \* ineq2eq.convert(qp), or NoProblem
    qp_eq_bin,      \* int2bin.convert(qp_eq), or NoProblem
    qubo,           \* lineq2penalty.convert(qp_eq_bin), or NoProblem
    ineq2eq,        \* state of the InequalityToEquality instance
    int2bin,        \* state of the IntegerToBinary instance
    lineq2penalty,  \* state of the LinearEqualityToPenalty instance
    conv,           \* state of the QuadraticProgramToQubo instance
    x,              \* the vector being threaded through interpret
    last            \* the last operation, its argument and its outcome

vars == <<qp, qp_eq, qp_eq_bin, qubo, ineq2eq, int2bin, lineq2penalty, conv,
          x, last>>

----------------------------------------------------------------------------
(* Bounds of the family of input problems.                                 *)

MaxRange == 2
MaxLb == 1
MaxCoef == 1
MaxRhs2 == 3

----------------------------------------------------------------------------
(* Arithmetic helpers.                                                     *)

RECURSIVE SumTo(_, _)
SumTo(f, n) == IF n = 0 THEN 0 ELSE f[n] + SumTo(f, n - 1)

Sum(s) == SumTo(s, Len(s))

Dot(a, v) == Sum([i \in 1..Len(a) |-> a[i] * v[i]])

Min2(a, b) == IF a <= b THEN a ELSE b

Max2(a, b) == IF a >= b THEN a ELSE b

Floor(r) == r.num \div r.den

Ceil(r) == -((-r.num) \div r.den)

Int2Rat(n) == [num |-> n, den |-> 1]

Zeros(n) == [i \in 1..n |-> 0]

RECURSIVE Flatten(_)
Flatten(ss) == IF ss = <<>> THEN <<>> ELSE Head(ss) \o Flatten(Tail(ss))

\* 2^k
RECURSIVE Pow2(_)
Pow2(k) == IF k = 0 THEN 1 ELSE 2 * Pow2(k - 1)

----------------------------------------------------------------------------
(* Problem model.                                                          *)

NoProblem == [none |-> TRUE]

NumVars(p) == Len(p.vars)

BinaryVar(n) == [name |-> n, kind |-> "B", lb |-> 0, ub |-> 1, unbounded |-> FALSE]

IntegerVar(n, lo, hi) == [name |-> n, kind |-> "I", lb |-> lo, ub |-> hi, unbounded |-> FALSE]

ContinuousVar(n) == [name |-> n, kind |-> "C", lb |-> 0, ub |-> 0, unbounded |-> TRUE]

\* a constraint with integer coefficients lin[i]
LinearConstraint(n, l, s, r) ==
    [name |-> n, lin |-> l, cden |-> 1, sense |-> s, rhs |-> r]

\* a constraint with the coefficients lin[i] / d in lowest terms, d > 0:
\* d = 1 exactly when every coefficient is integral
ScaledConstraint(n, l, d, s, r) ==
    [name |-> n, lin |-> l, cden |-> d, sense |-> s, rhs |-> r]

IntegralCoefficients(c) == c.cden = 1

\* objective value of p at the assignment v (one value per variable)
EvalObjective(p, v) ==
    p.const + Dot(p.lin, v)
    + Sum([i \in 1..NumVars(p) |->
            Sum([j \in 1..NumVars(p) |-> p.quad[i][j] * v[i] * v[j]])])

\* does v satisfy constraint c: den * L(v) compared with num
Satisfies(c, v) ==
    LET l == Dot(c.lin, v) * c.rhs.den
        r == c.rhs.num * c.cden
    IN CASE c.sense = "LE" -> l <= r
         [] c.sense = "GE" -> l >= r
         [] OTHER -> l = r

Feasible(p, v) ==
    /\ Len(v) = NumVars(p)
    /\ \A i \in 1..NumVars(p) :
          /\ v[i] >= p.vars[i].lb
          /\ p.vars[i].unbounded \/ v[i] <= p.vars[i].ub
    /\ \A k \in 1..Len(p.cons) : Satisfies(p.cons[k], v)

Names(p) == [i \in 1..NumVars(p) |-> p.vars[i].name]

\* pad a coefficient row / matrix to n variables
PadRow(r, n) == [i \in 1..n |-> IF i <= Len(r) THEN r[i] ELSE 0]

PadQuad(q, n) ==
    [i \in 1..n |-> [j \in 1..n |-> IF i <= Len(q) /\ j <= Len(q) THEN q[i][j] ELSE 0]]

----------------------------------------------------------------------------
(* InequalityToEquality.                                                   *)

IsInequality(c) == c.sense \in {"LE", "GE"}

\* bounds of a linear expression over the box of the variables' own bounds
ExprLo(p, l) ==
    Sum([i \in 1..Len(l) |-> Min2(l[i] * p.vars[i].lb, l[i] * p.vars[i].ub)])

ExprHi(p, l) ==
    Sum([i \in 1..Len(l) |-> Max2(l[i] * p.vars[i].lb, l[i] * p.vars[i].ub)])

ReferencesUnbounded(p, c) ==
    \E i \in 1..Len(c.lin) : c.lin[i] # 0 /\ p.vars[i].unbounded

SlackName(cname) == cname \o "@int_slack"

\* the right-hand side of the rewritten constraint: the part after the
\* decimal point is cut off, the left side taking integer values only
\* NewRhs rounding every right-hand side upwards
NewRhs_RoundUp(c) ==
    IF IsInequality(c) THEN Ceil(c.rhs) ELSE c.rhs.num

NewRhs(c) ==
    CASE c.sense = "LE" -> Floor(c.rhs)
      [] c.sense = "GE" -> Ceil(c.rhs)
      [] OTHER -> c.rhs.num

\* SlackUpperBound taking every term at its variable's lower (upper) bound,
\* whatever the sign of the coefficient
SlackUpperBound_SignBlind(p, c) ==
    IF c.sense = "LE"
    THEN NewRhs(c) - Sum([i \in 1..Len(c.lin) |-> c.lin[i] * p.vars[i].lb])
    ELSE Sum([i \in 1..Len(c.lin) |-> c.lin[i] * p.vars[i].ub]) - NewRhs(c)

\* with a coefficient that is not integral the right-hand side is not
\* adjusted, and the bound of the integer slack is r - lo (hi - r) rounded
\* down, lo and hi being ExprLo / cden and ExprHi / cden
SlackUpperBound(p, c) ==
    IF IntegralCoefficients(c)
    THEN IF c.sense = "LE" THEN NewRhs(c) - ExprLo(p, c.lin)
                           ELSE ExprHi(p, c.lin) - NewRhs(c)
    ELSE IF c.sense = "LE"
         THEN Floor([num |-> c.rhs.num * c.cden - ExprLo(p, c.lin) * c.rhs.den,
                     den |-> c.rhs.den * c.cden])
         ELSE Floor([num |-> ExprHi(p, c.lin) * c.rhs.den - c.rhs.num * c.cden,
                     den |-> c.rhs.den * c.cden])

SlackSign(c) == IF c.sense = "LE" THEN 1 ELSE -1

SlackVar(p, c) == IntegerVar(SlackName(c.name), 0, SlackUpperBound(p, c))

\* index of the slack of constraint k: slacks are appended after all
\* original variables, in constraint order; 0 for an equality constraint
SlackIndex(p, k) ==
    IF IsInequality(p.cons[k])
    THEN NumVars(p) + Cardinality({j \in 1..k : IsInequality(p.cons[j])})
    ELSE 0

I2E_NewConstraint(p, k, n) ==
    LET c == p.cons[k] IN
    IF IsInequality(c)
    THEN ScaledConstraint(c.name,
             [i \in 1..n |-> IF i <= NumVars(p) THEN c.lin[i]
                             ELSE IF i = SlackIndex(p, k) THEN SlackSign(c) * c.cden
                             ELSE 0],
             c.cden, "EQ",
             IF IntegralCoefficients(c) THEN Int2Rat(NewRhs(c)) ELSE c.rhs)
    ELSE ScaledConstraint(c.name, PadRow(c.lin, n), c.cden, c.sense, c.rhs)

I2E_Problem(p) ==
    LET ineqs == SelectSeq(p.cons, IsInequality)
        n == NumVars(p) + Len(ineqs)
    IN [vars  |-> p.vars \o [k \in 1..Len(ineqs) |-> SlackVar(p, ineqs[k])],
        sense |-> p.sense,
        const |-> p.const,
        lin   |-> PadRow(p.lin, n),
        quad  |-> PadQuad(p.quad, n),
        cons  |-> [k \in 1..Len(p.cons) |-> I2E_NewConstraint(p, k, n)]]

\* InequalityToEquality.convert: the new problem and the new stage state
I2E_convert(p) ==
    IF \E k \in 1..Len(p.cons) :
           IsInequality(p.cons[k]) /\ ReferencesUnbounded(p, p.cons[k])
    THEN [ok |-> FALSE, error |-> "UnboundedConstraint"]
    ELSE [ok |-> TRUE, error |-> "none",
          problem |-> I2E_Problem(p),
          state |-> [ready |-> TRUE,
                     nsrc  |-> NumVars(p),
                     ndst  |-> NumVars(I2E_Problem(p)),
                     slack |-> [k \in 1..Len(p.cons) |-> SlackIndex(p, k)]]]

\* a stage before its first convert, and after a convert that failed
I2EInit == [ready |-> FALSE, nsrc |-> 0, ndst |-> 0, slack |-> <<>>]

\* the entries of v whose index is not in drop, in order
RECURSIVE DropEntries(_, _, _)
DropEntries(v, drop, i) ==
    IF i > Len(v) THEN <<>>
    ELSE (IF i \in drop THEN <<>> ELSE <<v[i]>>) \o DropEntries(v, drop, i + 1)

\* InequalityToEquality.interpret: drops the slack entries
I2E_interpret(st, v) ==
    IF ~st.ready THEN [ok |-> FALSE, error |-> "StateNotInitialized"]
    ELSE IF Len(v) # st.ndst THEN [ok |-> FALSE, error |-> "DimensionMismatch"]
    ELSE [ok |-> TRUE, error |-> "none",
          x |-> DropEntries(v, {st.slack[k] : k \in 1..Len(st.slack)}, 1)]

----------------------------------------------------------------------------
(* IntegerToBinary: bounded-coefficient encoding.                          *)

\* the largest m with 2^m - 1 <= n, searched upwards from m
RECURSIVE LargestPower(_, _)
LargestPower(n, m) ==
    IF Pow2(m + 1) - 1 <= n THEN LargestPower(n, m + 1) ELSE m

\* coefficients of the binary expansion of an integer variable in [lo, hi]:
\* 2^0 .. 2^(m-1), and the remainder of the range when there is one
\* EncodingCoeffs as the plain binary expansion: powers of two only
EncodingCoeffs_PowersOfTwo(lo, hi) ==
    LET n == hi - lo
        m == LargestPower(n, 0)
    IN [i \in 1..(IF Pow2(m) - 1 < n THEN m + 1 ELSE m) |-> Pow2(i - 1)]

EncodingCoeffs(lo, hi) ==
    LET n == hi - lo
        m == LargestPower(n, 0)
        powers == [i \in 1..m |-> Pow2(i - 1)]
    IN IF Pow2(m) - 1 < n THEN Append(powers, n - (Pow2(m) - 1)) ELSE powers

BitName(vname, i) == vname \o "@" \o ToString(i)

IsEncoded(v) == v.kind = "I"

VarCoeffs(v) == IF IsEncoded(v) THEN EncodingCoeffs(v.lb, v.ub) ELSE <<1>>

VarOffset(v) == IF IsEncoded(v) THEN v.lb ELSE 0

\* the binary variables that replace v, in order
VarBits(v) ==
    IF IsEncoded(v)
    THEN [k \in 1..Len(VarCoeffs(v)) |-> BinaryVar(BitName(v.name, k - 1))]
    ELSE <<v>>

\* where the binary variables of each input variable go: the coefficients of
\* input variable i, the output index of its first binary variable, the
\* number n of output variables, and T[i][k], the coefficient of output
\* variable k in the expansion of input variable i
Layout(p) ==
    LET m == NumVars(p)
        cs == [i \in 1..m |-> VarCoeffs(p.vars[i])]
        w == [i \in 1..m |-> Len(cs[i])]
        st == [i \in 1..m |-> 1 + SumTo(w, i - 1)]
        n == SumTo(w, m)
    IN [coeffs |-> cs, start |-> st, n |-> n,
        T |-> [i \in 1..m |-> [k \in 1..n |->
                 IF k >= st[i] /\ k < st[i] + w[i] THEN cs[i][k - st[i] + 1] ELSE 0]]]

\* substitution of lb + sum c_k b_k for every integer variable in a row
SubstituteRow(T, l, n) ==
    [k \in 1..n |-> Sum([i \in 1..Len(l) |-> l[i] * T[i][k]])]

RowOffset(p, l) == Sum([i \in 1..NumVars(p) |-> l[i] * VarOffset(p.vars[i])])

I2B_Problem(p) ==
    LET m == NumVars(p)
        lay == Layout(p)
        n == lay.n
        T == lay.T
        off == [i \in 1..m |-> VarOffset(p.vars[i])]
        \* the (i, j) with a quadratic term
        Q == {ij \in (1..m) \X (1..m) : p.quad[ij[1]][ij[2]] # 0}
        QSum(f(_, _)) ==
            Sum([i \in 1..m |->
                 Sum([j \in 1..m |-> IF <<i, j>> \in Q THEN p.quad[i][j] * f(i, j) ELSE 0])])
    IN [vars  |-> Flatten([i \in 1..m |-> VarBits(p.vars[i])]),
        sense |-> p.sense,
        const |-> p.const + RowOffset(p, p.lin)
                  + QSum(LAMBDA i, j : off[i] * off[j]),
        lin   |-> [k \in 1..n |->
                     Sum([i \in 1..m |-> p.lin[i] * T[i][k]])
                     + QSum(LAMBDA i, j : off[i] * T[j][k] + off[j] * T[i][k])],
        quad  |-> [k \in 1..n |-> [l \in 1..n |->
                     IF l < k THEN 0
                     ELSE QSum(LAMBDA i, j :
                              T[i][k] * T[j][l]
                              + (IF k # l THEN T[i][l] * T[j][k] ELSE 0))]],
        cons  |-> [c \in 1..Len(p.cons) |->
                     ScaledConstraint(p.cons[c].name,
                         SubstituteRow(T, p.cons[c].lin, n),
                         p.cons[c].cden,
                         p.cons[c].sense,
                         [num |-> p.cons[c].rhs.num * p.cons[c].cden
                                  - p.cons[c].rhs.den * RowOffset(p, p.cons[c].lin),
                          den |-> p.cons[c].rhs.den * p.cons[c].cden])]]

\* IntegerToBinary.convert: the new problem and the new stage state
I2B_convert(p) ==
    IF \E i \in 1..NumVars(p) : p.vars[i].kind = "C"
    THEN [ok |-> FALSE, error |-> "UnsupportedVariableKind"]
    ELSE LET lay == Layout(p) IN
         [ok |-> TRUE, error |-> "none",
          problem |-> I2B_Problem(p),
          state |-> [ready |-> TRUE,
                     ndst  |-> lay.n,
                     enc   |-> [i \in 1..NumVars(p) |->
                                  [encoded |-> IsEncoded(p.vars[i]),
                                   start   |-> lay.start[i],
                                   coeffs  |-> lay.coeffs[i],
                                   lb      |-> VarOffset(p.vars[i])]]]]

I2BInit == [ready |-> FALSE, ndst |-> 0, enc |-> <<>>]

\* value of one input variable from the binary entries of v
\* DecodeVar without the lower bound of the variable
DecodeVar_NoOffset(e, v) ==
    IF e.encoded
    THEN Sum([k \in 1..Len(e.coeffs) |-> e.coeffs[k] * v[e.start + k - 1]])
    ELSE v[e.start]

DecodeVar(e, v) ==
    IF e.encoded
    THEN e.lb + Sum([k \in 1..Len(e.coeffs) |-> e.coeffs[k] * v[e.start + k - 1]])
    ELSE v[e.start]

\* IntegerToBinary.interpret
I2B_interpret(st, v) ==
    IF ~st.ready THEN [ok |-> FALSE, error |-> "StateNotInitialized"]
    ELSE IF Len(v) # st.ndst THEN [ok |-> FALSE, error |-> "DimensionMismatch"]
    ELSE [ok |-> TRUE, error |-> "none",
          x |-> [i \in 1..Len(st.enc) |-> DecodeVar(st.enc[i], v)]]

----------------------------------------------------------------------------
(* LinearEqualityToPenalty.                                                *)

\* a penalty configuration: the factor M given to the constructor, or none
NoPenalty == [set |-> FALSE, value |-> 0]

Penalty(m) == [set |-> TRUE, value |-> m]

\* bounds of the quadratic part of an objective over binary variables
QuadLo(p) ==
    Sum([i \in 1..NumVars(p) |->
         Sum([j \in 1..NumVars(p) |-> Min2(0, p.quad[i][j])])])

QuadHi(p) ==
    Sum([i \in 1..NumVars(p) |->
         Sum([j \in 1..NumVars(p) |-> Max2(0, p.quad[i][j])])])

\* the factor used when none is configured: one more than the width of the
\* objective's range (13 for the tutorial's 3x + 2y + z@0 + 2z@1 + 4z@2)
AutoPenalty(p) ==
    1 + (ExprHi(p, p.lin) - ExprLo(p, p.lin)) + (QuadHi(p) - QuadLo(p))

PenaltyFactor(p, cfg) == IF cfg.set THEN cfg.value ELSE AutoPenalty(p)

\* PenaltySign ignoring the sense
PenaltySign_AlwaysPlus(p) == 1

PenaltySign(p) == IF p.sense = "max" THEN -1 ELSE 1

\* sign * M * (b - sum a_i x_i)^2 expanded: constant, linear and quadratic
\* contributions of one constraint (right-hand sides are integral here)
PenaltyConst(c, sm) == sm * c.rhs.num * c.rhs.num

\* PenaltyLin without the factor 2 of the cross term
PenaltyLin_NoDouble(c, sm, i) == -sm * c.rhs.num * c.lin[i]

PenaltyLin(c, sm, i) == -2 * sm * c.rhs.num * c.lin[i]

\* PenaltyQuad without the squares of the variables
PenaltyQuad_NoSquares(c, sm, i, j) ==
    IF j <= i THEN 0 ELSE 2 * sm * c.lin[i] * c.lin[j]

PenaltyQuad(c, sm, i, j) ==
    IF j < i THEN 0
    ELSE IF i = j THEN sm * c.lin[i] * c.lin[i]
    ELSE 2 * sm * c.lin[i] * c.lin[j]

L2P_Problem(p, cfg) ==
    LET sm == PenaltySign(p) * PenaltyFactor(p, cfg)
        n == NumVars(p)
        K == Len(p.cons)
    IN [vars  |-> p.vars,
        sense |-> p.sense,
        const |-> p.const + Sum([k \in 1..K |-> PenaltyConst(p.cons[k], sm)]),
        lin   |-> [i \in 1..n |->
                     p.lin[i] + Sum([k \in 1..K |-> PenaltyLin(p.cons[k], sm, i)])],
        quad  |-> [i \in 1..n |-> [j \in 1..n |->
                     p.quad[i][j]
                     + Sum([k \in 1..K |-> PenaltyQuad(p.cons[k], sm, i, j)])]],
        cons  |-> <<>>]

L2P_Precondition(p) ==
    /\ \A i \in 1..NumVars(p) : p.vars[i].kind = "B"
    /\ \A k \in 1..Len(p.cons) : p.cons[k].sense = "EQ"

\* LinearEqualityToPenalty.convert
L2P_convert(p, cfg) ==
    IF ~L2P_Precondition(p)
    THEN [ok |-> FALSE, error |-> "PreconditionViolated"]
    ELSE [ok |-> TRUE, error |-> "none",
          problem |-> L2P_Problem(p, cfg),
          state |-> [ready |-> TRUE, penalty |-> cfg, ndst |-> NumVars(p)]]

L2PInit(cfg) == [ready |-> FALSE, penalty |-> cfg, ndst |-> 0]

\* LinearEqualityToPenalty.interpret: no variable was added or removed
L2P_interpret(st, v) ==
    IF ~st.ready THEN [ok |-> FALSE, error |-> "StateNotInitialized"]
    ELSE IF Len(v) # st.ndst THEN [ok |-> FALSE, error |-> "DimensionMismatch"]
    ELSE [ok |-> TRUE, error |-> "none", x |-> v]

----------------------------------------------------------------------------
(* MaximizeToMinimize and QuadraticProgramToQubo.                          *)

Negate(row) == [i \in 1..Len(row) |-> -row[i]]

\* MaximizeToMinimize.convert: the equivalent minimization problem
\* Max2Min_convert negating the coefficients but not the constant
Max2Min_KeepConst(p) ==
    IF p.sense = "max"
    THEN [p EXCEPT !.sense = "min",
                   !.lin   = Negate(p.lin),
                   !.quad  = [i \in 1..Len(p.quad) |-> Negate(p.quad[i])]]
    ELSE p

Max2Min_convert(p) ==
    IF p.sense = "max"
    THEN [p EXCEPT !.sense = "min",
                   !.const = -p.const,
                   !.lin   = Negate(p.lin),
                   !.quad  = [i \in 1..Len(p.quad) |-> Negate(p.quad[i])]]
    ELSE p

ConvInit(cfg) ==
    [ready |-> FALSE, penalty |-> cfg,
     ineq2eq |-> I2EInit, int2bin |-> I2BInit, lineq2penalty |-> L2PInit(cfg)]

\* QuadraticProgramToQubo.convert: the stages in their fixed order; the first
\* failure is propagated and no problem is returned
Qubo_convert(st, p) ==
    LET r1 == I2E_convert(Max2Min_convert(p))
        r2 == I2B_convert(r1.problem)
        r3 == L2P_convert(r2.problem, st.penalty)
    IN IF ~r1.ok
       THEN [ok |-> FALSE, error |-> r1.error,
             state |-> [st EXCEPT !.ready = FALSE, !.ineq2eq = I2EInit]]
       ELSE IF ~r2.ok
       THEN [ok |-> FALSE, error |-> r2.error,
             state |-> [st EXCEPT !.ready = FALSE, !.ineq2eq = r1.state,
                                  !.int2bin = I2BInit]]
       ELSE IF ~r3.ok
       THEN [ok |-> FALSE, error |-> r3.error,
             state |-> [st EXCEPT !.ready = FALSE, !.ineq2eq = r1.state,
                                  !.int2bin = r2.state,
                                  !.lineq2penalty = L2PInit(st.penalty)]]
       ELSE [ok |-> TRUE, error |-> "none",
             problem |-> r3.problem,
             state |-> [st EXCEPT !.ready = TRUE, !.ineq2eq = r1.state,
                                  !.int2bin = r2.state,
                                  !.lineq2penalty = r3.state]]

\* QuadraticProgramToQubo.interpret: the stages' interpret in reverse order
\* Qubo_interpret checking the length of the vector but not its own state
Qubo_interpret_NoReadyCheck(st, v) ==
    IF Len(v) # st.lineq2penalty.ndst
    THEN [ok |-> FALSE, error |-> "DimensionMismatch"]
    ELSE LET y1 == L2P_interpret(st.lineq2penalty, v)
             y2 == I2B_interpret(st.int2bin, y1.x)
         IN IF ~y1.ok THEN y1
            ELSE IF ~y2.ok THEN y2
            ELSE I2E_interpret(st.ineq2eq, y2.x)

Qubo_interpret(st, v) ==
    IF ~st.ready THEN [ok |-> FALSE, error |-> "StateNotInitialized"]
    ELSE IF Len(v) # st.lineq2penalty.ndst
    THEN [ok |-> FALSE, error |-> "DimensionMismatch"]
    ELSE LET y1 == L2P_interpret(st.lineq2penalty, v)
             y2 == I2B_interpret(st.int2bin, y1.x)
         IN IF ~y1.ok THEN y1
            ELSE IF ~y2.ok THEN y2
            ELSE I2E_interpret(st.ineq2eq, y2.x)

----------------------------------------------------------------------------
(* The tutorial's problem and the family of input problems.                *)

ZeroQuad(n) == [i \in 1..n |-> Zeros(n)]

\* maximize 3x + 2y + z, x + y + z <= 5.5, x + y + z >= 2.5
TutorialQP ==
    [vars  |-> <<BinaryVar("x"), BinaryVar("y"), IntegerVar("z", 0, 7)>>,
     sense |-> "max",
     const |-> 0,
     lin   |-> <<3, 2, 1>>,
     quad  |-> ZeroQuad(3),
     cons  |-> <<LinearConstraint("xyz_leq", <<1, 1, 1>>, "LE", [num |-> 11, den |-> 2]),
                 LinearConstraint("xyz_geq", <<1, 1, 1>>, "GE", [num |-> 5, den |-> 2])>>]

FirstVars ==
    {BinaryVar("x"), ContinuousVar("x")}
    \cup {IntegerVar("x", lo, lo + r) : lo \in (-MaxLb)..0, r \in 1..MaxRange}

SecondVars(n) == {BinaryVar(n), IntegerVar(n, 0, MaxRange)}

VarLists(n) ==
    {<<v>> : v \in FirstVars} \cup {<<v, w>> : v \in FirstVars, w \in SecondVars(n)}

Ones(n) == [i \in 1..n |-> 1]

ObjRows(n) == IF n = 1 THEN {<<2>>, <<-1>>} ELSE {<<2, 1>>, <<-1, 2>>}

Quads(n) ==
    IF n = 1 THEN {<<<<0>>>>, <<<<1>>>>}
    ELSE {ZeroQuad(2), <<<<1, 0>>, <<0, 0>>>>, <<<<0, -1>>, <<0, 0>>>>}

Rows(n) ==
    IF n = 1 THEN {<<a>> : a \in {-1, MaxCoef}}
    ELSE {<<a, b>> : a \in {-1, MaxCoef}, b \in (-1)..MaxCoef}

Rhs == {[num |-> h, den |-> 2] : h \in 0..MaxRhs2}

\* inequality constraints take halves as right-hand sides, equality
\* constraints integers
Constraints(n) ==
    {LinearConstraint("c", l, s, r) : l \in Rows(n), s \in {"LE", "GE"}, r \in Rhs}
    \cup {LinearConstraint("c", l, "EQ", Int2Rat(b)) : l \in Rows(n), b \in 0..1}

MkProblem(vs, sn, k, l, q, cs) ==
    [vars |-> vs, sense |-> sn, const |-> k, lin |-> l, quad |-> q, cons |-> cs]

HalfOnes(n) == LinearConstraint("c", Ones(n), "LE", [num |-> 3, den |-> 2])

\* every objective, with one inequality or unconstrained
ObjectiveFamily ==
    UNION {{MkProblem(vs, sn, 1, l, q, cs) :
               sn \in {"max", "min"}, l \in ObjRows(Len(vs)), q \in Quads(Len(vs)),
               cs \in {<<>>, <<HalfOnes(Len(vs))>>}} : vs \in VarLists("y")}

\* every constraint, with a fixed objective
ConstraintFamily ==
    UNION {{MkProblem(vs, "min", 0, Ones(Len(vs)), ZeroQuad(Len(vs)), <<c>>) :
               c \in Constraints(Len(vs))} : vs \in VarLists("y")}

\* two constraints, as in the tutorial
TwoConstraintFamily ==
    {MkProblem(<<BinaryVar("x"), IntegerVar("y", 0, MaxRange)>>, sn, 0, <<1, 2>>,
               ZeroQuad(2),
               <<LinearConstraint("c", <<1, 1>>, "LE", r),
                 LinearConstraint("d", <<1, 1>>, "GE", [num |-> 1, den |-> 2])>>) :
        sn \in {"max", "min"}, r \in Rhs}

\* input variables that carry the names the converters derive
NamingFamily ==
    UNION {{MkProblem(vs, "max", 0, Ones(2), ZeroQuad(2), <<HalfOnes(2)>>) :
               vs \in {<<v, w>> : v \in {BinaryVar("x"), IntegerVar("x", 0, MaxRange)},
                                  w \in SecondVars(n)}} :
           n \in {SlackName("c"), BitName("x", 0), BitName(SlackName("c"), 0)}}

Problems ==
    {TutorialQP} \cup ObjectiveFamily \cup ConstraintFamily
    \cup TwoConstraintFamily \cup NamingFamily

\* the factor the tutorial text names as default
DefaultPenalty == 100000

PenaltyChoices == {Penalty(1), Penalty(DefaultPenalty)}

\* the converters are constructed with a penalty factor, or with none
Configurations ==
    (Problems \X {NoPenalty})
    \cup (TwoConstraintFamily \X PenaltyChoices)

----------------------------------------------------------------------------
(* The operations.                                                         *)

\* a solution vector and the problem whose variables index it
Vector(of, val) == [of |-> of, val |-> val]

NoVector == Vector("none", <<>>)

Outcome(op, arg, r) == [op |-> op, arg |-> arg, ok |-> r.ok, error |-> r.error]

Init ==
    \E cf \in Configurations :
        /\ qp = cf[1]
        /\ qp_eq = NoProblem
        /\ qp_eq_bin = NoProblem
        /\ qubo = NoProblem
        /\ ineq2eq = I2EInit
        /\ int2bin = I2BInit
        /\ lineq2penalty = L2PInit(cf[2])
        /\ conv = ConvInit(cf[2])
        /\ x = NoVector
        /\ last = [op |-> "init", arg |-> NoVector, ok |-> TRUE, error |-> "none"]

\* qp_eq = ineq2eq.convert(qp); each cell of the tutorial runs once, a
\* second run of a convert giving the same problem and the same state
I2E_Convert ==
    /\ last.op = "init"
    /\ LET r == I2E_convert(qp) IN
       /\ qp_eq' = IF r.ok THEN r.problem ELSE qp_eq
       /\ ineq2eq' = IF r.ok THEN r.state ELSE I2EInit
       /\ last' = Outcome("ineq2eq.convert", NoVector, r)
    /\ UNCHANGED <<qp, qp_eq_bin, qubo, int2bin, lineq2penalty, conv, x>>

\* I2B_Convert substituting the bits into the problem it is given, in place
I2B_Convert_InPlace ==
    /\ qp_eq # NoProblem
    /\ last.op = "ineq2eq.convert"
    /\ LET r == I2B_convert(qp_eq) IN
       /\ qp_eq_bin' = IF r.ok THEN r.problem ELSE qp_eq_bin
       /\ qp_eq' = IF r.ok THEN r.problem ELSE qp_eq
       /\ int2bin' = IF r.ok THEN r.state ELSE I2BInit
       /\ last' = Outcome("int2bin.convert", NoVector, r)
    /\ UNCHANGED <<qp, qubo, ineq2eq, lineq2penalty, conv, x>>

\* qp_eq_bin = int2bin.convert(qp_eq)
I2B_Convert ==
    /\ qp_eq # NoProblem
    /\ last.op = "ineq2eq.convert"
    /\ LET r == I2B_convert(qp_eq) IN
       /\ qp_eq_bin' = IF r.ok THEN r.problem ELSE qp_eq_bin
       /\ int2bin' = IF r.ok THEN r.state ELSE I2BInit
       /\ last' = Outcome("int2bin.convert", NoVector, r)
    /\ UNCHANGED <<qp, qp_eq, qubo, ineq2eq, lineq2penalty, conv, x>>

\* qubo = lineq2penalty.convert(qp_eq_bin)
L2P_Convert ==
    /\ qp_eq_bin # NoProblem
    /\ last.op = "int2bin.convert"
    /\ LET r == L2P_convert(qp_eq_bin, lineq2penalty.penalty) IN
       /\ qubo' = IF r.ok THEN r.problem ELSE qubo
       /\ lineq2penalty' = IF r.ok THEN r.state ELSE L2PInit(lineq2penalty.penalty)
       /\ last' = Outcome("lineq2penalty.convert", NoVector, r)
    /\ UNCHANGED <<qp, qp_eq, qp_eq_bin, ineq2eq, int2bin, conv, x>>

BinaryVectors(n) == [1..n -> {0, 1}]

\* x = solve(qubo).x: any binary vector, the optimum among them; or a vector
\* of another length
SolveQubo ==
    /\ qubo # NoProblem
    /\ x = NoVector
    /\ \E v \in BinaryVectors(NumVars(qubo)) \cup {Zeros(NumVars(qubo) + 1)} :
          /\ x' = Vector("qubo", v)
          /\ last' = [op |-> "solve", arg |-> NoVector, ok |-> TRUE, error |-> "none"]
    /\ UNCHANGED <<qp, qp_eq, qp_eq_bin, qubo, ineq2eq, int2bin, lineq2penalty, conv>>

\* x = conv.interpret(x): a vector indexed by the stage's output variables
\* becomes one indexed by its input variables
Interpret(op, from, to, r) ==
    /\ x.of = from
    /\ x' = IF r.ok THEN Vector(to, r.x) ELSE x
    /\ last' = Outcome(op, x, r)
    /\ UNCHANGED <<qp, qp_eq, qp_eq_bin, qubo, ineq2eq, int2bin, lineq2penalty, conv>>

L2P_Interpret ==
    Interpret("lineq2penalty.interpret", "qubo", "qp_eq_bin",
              L2P_interpret(lineq2penalty, x.val))

I2B_Interpret ==
    Interpret("int2bin.interpret", "qp_eq_bin", "qp_eq", I2B_interpret(int2bin, x.val))

I2E_Interpret ==
    Interpret("ineq2eq.interpret", "qp_eq", "qp", I2E_interpret(ineq2eq, x.val))

Next ==
    \/ I2E_Convert
    \/ I2B_Convert
    \/ L2P_Convert
    \/ SolveQubo
    \/ L2P_Interpret
    \/ I2B_Interpret
    \/ I2E_Interpret

Spec == Init /\ [][Next]_vars

\* the values a solver may return for a variable: its domain, cut to two
\* values for an unbounded variable
Domain(v) == IF v.unbounded THEN v.lb..(v.lb + 1) ELSE v.lb..v.ub

\* the assignments of p's variables inside their bounds
Box(p) == {v \in [1..NumVars(p) -> UNION {Domain(p.vars[i]) : i \in 1..NumVars(p)}] :
              \A i \in 1..NumVars(p) : v[i] \in Domain(p.vars[i])}

\* the assignments at the lower and at the upper bounds
Corners(p) ==
    {[i \in 1..NumVars(p) |-> p.vars[i].lb],
     [i \in 1..NumVars(p) |-> IF p.vars[i].unbounded THEN p.vars[i].lb + 1 ELSE p.vars[i].ub]}

\* x = solve(qp).x: an assignment of the original variables, here one of
\* the two corners of the box
SolveOrig ==
    /\ x = NoVector
    /\ \E v \in Corners(qp) :
          /\ x' = Vector("orig", v)
          /\ last' = [op |-> "solve", arg |-> NoVector, ok |-> TRUE, error |-> "none"]
    /\ UNCHANGED <<qp, qp_eq, qp_eq_bin, qubo, ineq2eq, int2bin, lineq2penalty, conv>>

\* qubo = conv.convert(qp), conv a QuadraticProgramToQubo; a convert that
\* succeeded is not repeated, qp being the same
Qubo_Convert ==
    /\ ~conv.ready
    /\ LET r == Qubo_convert(conv, qp) IN
       /\ qubo' = IF r.ok THEN r.problem ELSE qubo
       /\ conv' = r.state
       /\ last' = Outcome("conv.convert", NoVector, r)
    /\ UNCHANGED <<qp, qp_eq, qp_eq_bin, ineq2eq, int2bin, lineq2penalty, x>>

\* x = conv.interpret(x)
Qubo_Interpret ==
    /\ x.of \in {"qubo", "orig"}
    /\ LET r == Qubo_interpret(conv, x.val) IN
       /\ x' = IF r.ok THEN Vector("qp", r.x) ELSE x
       /\ last' = Outcome("conv.interpret", x, r)
    /\ UNCHANGED <<qp, qp_eq, qp_eq_bin, qubo, ineq2eq, int2bin, lineq2penalty, conv>>

NextQubo ==
    \/ Qubo_Convert
    \/ SolveOrig
    \/ SolveQubo
    \/ Qubo_Interpret

SpecQubo == Init /\ [][NextQubo]_vars

\* the stages called one by one and the wrapper, on the same problem
NextAll == Next \/ NextQubo

\* the problems with two constraints and the problems of one variable
InitAll ==
    Init /\ (qp \in TwoConstraintFamily \/ (qp \in ConstraintFamily /\ NumVars(qp) = 1))

SpecAll == InitAll /\ [][NextAll]_vars

\* the problems a stage is given in a second call of convert: one or two
\* variables, one constraint of either sense; some of them are refused
ReuseProblems ==
    {p \in ConstraintFamily :
        /\ p.vars[1].lb = 0 /\ p.vars[1].ub <= 1
        /\ p.cons[1].rhs.num = 1
        /\ \A i \in 1..NumVars(p) : p.cons[1].lin[i] = MaxCoef}

ReuseEqProblems ==
    {I2E_Problem(p) : p \in {q \in ReuseProblems : I2E_convert(q).ok}}
    \cup {q \in ReuseProblems : ~I2E_convert(q).ok}

ReuseBinProblems ==
    {I2B_Problem(p) : p \in {q \in ReuseEqProblems : I2B_convert(q).ok}}
    \cup {q \in ReuseProblems : I2B_convert(q).ok}

\* ineq2eq.convert(p), called a second time once a vector for the result of
\* the first call is at hand; qp is the problem ineq2eq was given last, the
\* result of the second call is not kept
I2E_Reconvert_KeepState ==
    /\ x.of = "qp_eq" /\ last.op = "int2bin.interpret"
    /\ \E p \in ReuseProblems :
          LET r == I2E_convert(p) IN
          /\ qp' = p
          /\ ineq2eq' = IF ineq2eq.ready THEN ineq2eq
                        ELSE IF r.ok THEN r.state ELSE I2EInit
          /\ last' = Outcome("ineq2eq.reconvert", NoVector, r)
    /\ UNCHANGED <<qp_eq, qp_eq_bin, qubo, int2bin, lineq2penalty, conv, x>>

I2E_Reconvert ==
    /\ x.of = "qp_eq" /\ last.op = "int2bin.interpret"
    /\ \E p \in ReuseProblems :
          LET r == I2E_convert(p) IN
          /\ qp' = p
          /\ ineq2eq' = IF r.ok THEN r.state ELSE I2EInit
          /\ last' = Outcome("ineq2eq.reconvert", NoVector, r)
    /\ UNCHANGED <<qp_eq, qp_eq_bin, qubo, int2bin, lineq2penalty, conv, x>>

\* int2bin.convert(p): qp_eq is the problem int2bin was given last
I2B_Reconvert ==
    /\ x.of = "qp_eq_bin" /\ last.op = "lineq2penalty.interpret"
    /\ \E p \in ReuseEqProblems :
          LET r == I2B_convert(p) IN
          /\ qp_eq' = p
          /\ int2bin' = IF r.ok THEN r.state ELSE I2BInit
          /\ last' = Outcome("int2bin.reconvert", NoVector, r)
    /\ UNCHANGED <<qp, qp_eq_bin, qubo, ineq2eq, lineq2penalty, conv, x>>

\* lineq2penalty.convert(p): qp_eq_bin is the problem lineq2penalty was
\* given last
L2P_Reconvert ==
    /\ x.of = "qubo" /\ last.op = "solve"
    /\ \E p \in ReuseBinProblems :
          LET r == L2P_convert(p, lineq2penalty.penalty) IN
          /\ qp_eq_bin' = p
          /\ lineq2penalty' = IF r.ok THEN r.state ELSE L2PInit(lineq2penalty.penalty)
          /\ last' = Outcome("lineq2penalty.reconvert", NoVector, r)
    /\ UNCHANGED <<qp, qp_eq, qubo, ineq2eq, int2bin, conv, x>>

NextReuse ==
    \/ Next
    \/ I2E_Reconvert
    \/ I2B_Reconvert
    \/ L2P_Reconvert

InitReuse == Init /\ qp \in ReuseProblems

SpecReuse == InitReuse /\ [][NextReuse]_vars

\* coefficient rows with a numerator that is odd: taken over the
\* denominator 2, a coefficient is not integral
HalfRows(n) == {l \in Rows(n) : \E i \in 1..n : l[i] % 2 = 1}

\* one inequality with coefficients in halves, with a fixed objective
ScaledFamily ==
    UNION {{MkProblem(vs, "min", 0, Ones(Len(vs)), ZeroQuad(Len(vs)),
                      <<ScaledConstraint("c", l, 2, s, r)>>) :
               l \in HalfRows(Len(vs)), s \in {"LE", "GE"}, r \in Rhs} :
           vs \in VarLists("y")}

\* InequalityToEquality alone, given constraints with integral and with
\* non-integral coefficients
InitIneq ==
    /\ qp \in ConstraintFamily \cup ScaledFamily
    /\ qp_eq = NoProblem
    /\ qp_eq_bin = NoProblem
    /\ qubo = NoProblem
    /\ ineq2eq = I2EInit
    /\ int2bin = I2BInit
    /\ lineq2penalty = L2PInit(NoPenalty)
    /\ conv = ConvInit(NoPenalty)
    /\ x = NoVector
    /\ last = [op |-> "init", arg |-> NoVector, ok |-> TRUE, error |-> "none"]

NextIneq == I2E_Convert

SpecIneq == InitIneq /\ [][NextIneq]_vars

\* the tutorial's run alone
InitTutorial == Init /\ qp = TutorialQP

SpecTutorial == InitTutorial /\ [][Next]_vars

----------------------------------------------------------------------------
(* What the tutorial prints, for comparison with the model.                *)

\* qp_eq: the right-hand sides and the bounds of the two slack variables
TutorialEqRhs == <<5, 3>>

TutorialSlackBounds == <<<<0, 5>>, <<0, 6>>>>

TutorialEqNames == <<"x", "y", "z", "xyz_leq@int_slack", "xyz_geq@int_slack">>

\* qp_eq_bin: the variables and the coefficients of both constraints
TutorialBinNames ==
    <<"x", "y", "z@0", "z@1", "z@2",
      "xyz_leq@int_slack@0", "xyz_leq@int_slack@1", "xyz_leq@int_slack@2",
      "xyz_geq@int_slack@0", "xyz_geq@int_slack@1", "xyz_geq@int_slack@2">>

TutorialBinRows ==
    <<<<1, 1, 1, 2, 4, 1, 2, 2, 0, 0, 0>>,
      <<1, 1, 1, 2, 4, 0, 0, 0, -1, -2, -3>>>>

\* qubo: the constant, the linear coefficients and the squares' coefficients
TutorialQuboConst == -442

TutorialQuboLin == <<211, 210, 209, 418, 836, 130, 260, 260, -78, -156, -234>>

TutorialQuboSquares == <<-26, -26, -26, -104, -416, -13, -52, -52, -13, -52, -117>>

\* the vector the solver returns for qubo and its interpretation
TutorialResultQubo == <<1, 1, 1, 1, 0, 0, 0, 0, 0, 1, 0>>

TutorialResultOrig == <<1, 1, 3>>

\* the model's run of the tutorial prints the same
TutorialAgrees ==
    qp = TutorialQP =>
      /\ qp_eq # NoProblem =>
            /\ Names(qp_eq) = TutorialEqNames
            /\ [k \in 1..2 |-> qp_eq.cons[k].rhs.num] = TutorialEqRhs
            /\ [k \in 1..2 |-> <<qp_eq.vars[3 + k].lb, qp_eq.vars[3 + k].ub>>]
                  = TutorialSlackBounds
      /\ qp_eq_bin # NoProblem =>
            /\ Names(qp_eq_bin) = TutorialBinNames
            /\ [k \in 1..2 |-> qp_eq_bin.cons[k].lin] = TutorialBinRows
            /\ qp_eq_bin.lin = <<3, 2, 1, 2, 4, 0, 0, 0, 0, 0, 0>>
      /\ (qubo # NoProblem /\ ~lineq2penalty.penalty.set) =>
            /\ qubo.const = TutorialQuboConst
            /\ qubo.lin = TutorialQuboLin
            /\ [i \in 1..11 |-> qubo.quad[i][i]] = TutorialQuboSquares
            /\ qubo.quad[1][2] = -52 /\ qubo.quad[1][9] = 26 /\ qubo.quad[4][5] = -416
      /\ (x.of = "qp" /\ last.arg.val = TutorialResultOrig \o <<0, 2>>) =>
            x.val = TutorialResultOrig

----------------------------------------------------------------------------
(* Notions the properties are stated with, defined without the converters. *)

SetMax(S) == CHOOSE m \in S : \A y \in S : y <= m

SetMin(S) == CHOOSE m \in S : \A y \in S : m <= y

Abs(n) == IF n < 0 THEN -n ELSE n

\* floor and ceiling of a rational by their defining inequalities
FloorOf(r) ==
    CHOOSE f \in (-Abs(r.num) - 1)..(Abs(r.num) + 1) :
        f * r.den <= r.num /\ r.num < (f + 1) * r.den

CeilOf(r) ==
    CHOOSE f \in (-Abs(r.num) - 1)..(Abs(r.num) + 1) :
        (f - 1) * r.den < r.num /\ r.num <= f * r.den

\* the values a weighted sum of bits can take
SubsetSums(cs) == {Dot(cs, b) : b \in BinaryVectors(Len(cs))}

Distinct(s) == \A i, j \in 1..Len(s) : s[i] = s[j] => i = j

ConstraintNames(p) == [k \in 1..Len(p.cons) |-> p.cons[k].name]

\* the value the slack of inequality c has to take at the assignment v
SlackValue(c, v) ==
    IF c.sense = "LE" THEN FloorOf(c.rhs) - Dot(c.lin, v)
                      ELSE Dot(c.lin, v) - CeilOf(c.rhs)

FeasibleSet(p) == {v \in Box(p) : Feasible(p, v)}

\* the number of the inequalities among the first k constraints of p
InequalitiesUpTo(p, k) == Cardinality({j \in 1..k : p.cons[j].sense # "EQ"})

\* the binary encoding of an assignment of p's variables: the bits of the
\* variables stand in variable order, an integer variable is its lower bound
\* plus the weighted sum of its bits, a binary variable is its own bit
BitCount(v) == IF v.kind = "I" THEN Len(EncodingCoeffs(v.lb, v.ub)) ELSE 1

FirstBit(p, i) == 1 + Sum([j \in 1..(i - 1) |-> BitCount(p.vars[j])])

Encoded(p, i, b) ==
    IF p.vars[i].kind = "I"
    THEN LET cs == EncodingCoeffs(p.vars[i].lb, p.vars[i].ub)
         IN p.vars[i].lb + Sum([k \in 1..Len(cs) |-> cs[k] * b[FirstBit(p, i) + k - 1]])
    ELSE b[FirstBit(p, i)]

\* the one assignment of p's variables the bits b encode
EncodedAssignment(p, b) == [i \in 1..NumVars(p) |-> Encoded(p, i, b)]

Encodes(p, b, xx) == xx = EncodedAssignment(p, b)

\* the squared violation of the equality constraints of p at v
Violation(p, v) ==
    Sum([k \in 1..Len(p.cons) |->
            (p.cons[k].rhs.num - Dot(p.cons[k].lin, v))
            * (p.cons[k].rhs.num - Dot(p.cons[k].lin, v))])

\* what LinearEqualityToPenalty added to the objective, at the vector x
PenaltyContribution == EvalObjective(qubo, x.val) - EvalObjective(qp_eq_bin, x.val)

\* x is an assignment of the variables of qubo
AtQuboVector == x.of = "qubo" /\ qubo # NoProblem /\ Len(x.val) = NumVars(qubo)

----------------------------------------------------------------------------
(* Round trip through QuadraticProgramToQubo.                              *)

\* C1: after a successful convert of qp, interpret applied to a binary vector
\* that encodes a feasible assignment xx of qp's variables (whatever the bits
\* of the slack variables are) succeeds and returns exactly xx: qp's
\* variables, in qp's order.
C1_InterpretRecovers ==
    (/\ last.op = "conv.interpret"
     /\ last.arg.of = "qubo"
     /\ Len(last.arg.val) = NumVars(qubo))
    => LET xx == EncodedAssignment(qp, last.arg.val)
       IN Feasible(qp, xx) => last.ok /\ x = Vector("qp", xx)

\* C1 witness: the tutorial's run, the solver's vector is interpreted as
\* x=1, y=1, z=3
C1_Witness ==
    /\ qp = TutorialQP
    /\ last.op = "conv.interpret" /\ last.ok
    /\ last.arg = Vector("qubo", TutorialResultQubo)
    /\ Encodes(qp, last.arg.val, TutorialResultOrig)
    /\ Feasible(qp, TutorialResultOrig)
    /\ x = Vector("qp", TutorialResultOrig)

\* the all-binary, all-equality problem the penalty stage of convert is
\* applied to
Intermediate(p) == I2B_Problem(I2E_Problem(Max2Min_convert(p)))

\* every equality of the intermediate problem holds at the bits b
EqualitiesHold(p, b) ==
    LET im == Intermediate(p)
    IN \A k \in 1..Len(im.cons) : Satisfies(im.cons[k], b)

\* C2 as stated: at the encoding of a feasible assignment xx, the slack bits
\* such that every equality holds, the converted objective equals qp's
\* objective at xx, for Minimize and for Maximize problems.
C2_SameObjective ==
    AtQuboVector =>
      LET xx == EncodedAssignment(qp, x.val)
      IN (Feasible(qp, xx) /\ EqualitiesHold(qp, x.val))
         => EvalObjective(qubo, x.val) = EvalObjective(qp, xx)

\* C2 amended: the converted problem is a Minimize problem; its objective at
\* the encoding equals qp's objective at xx when qp is a Minimize problem and
\* the negation of qp's objective at xx when qp is a Maximize problem.
C2_SameObjectiveUpToSense ==
    AtQuboVector =>
      /\ qubo.sense = "min"
      /\ LET xx == EncodedAssignment(qp, x.val)
         IN (Feasible(qp, xx) /\ EqualitiesHold(qp, x.val))
            => EvalObjective(qubo, x.val) =
                  (IF qp.sense = "max" THEN -1 ELSE 1) * EvalObjective(qp, xx)

\* C2 witness: a Maximize problem with constraints, at the encoding of a
\* feasible assignment with a nonzero objective value
C2_Witness ==
    /\ AtQuboVector
    /\ qp.sense = "max" /\ Len(qp.cons) > 0
    /\ LET xx == EncodedAssignment(qp, x.val)
       IN /\ Feasible(qp, xx) /\ EqualitiesHold(qp, x.val)
          /\ EvalObjective(qp, xx) # 0
          /\ EvalObjective(qubo, x.val) = -EvalObjective(qp, xx)

----------------------------------------------------------------------------
(* IntegerToBinary and InequalityToEquality.                               *)

\* an integer variable of qp_eq with a non-empty range, as converted
EncodedVars ==
    {i \in 1..NumVars(qp_eq) :
        qp_eq.vars[i].kind = "I" /\ qp_eq.vars[i].lb <= qp_eq.vars[i].ub}

\* the coefficients of the bits of variable i of qp_eq in a row of qp_eq_bin
\* that had coefficient 1 for the variable: read off the converted problem
BitsOf(i) == {j \in 1..NumVars(qp_eq_bin) :
                 \E k \in 0..NumVars(qp_eq_bin) :
                     qp_eq_bin.vars[j].name = BitName(qp_eq.vars[i].name, k)}

\* C3: the coefficients IntegerToBinary.convert gives the bits of an integer
\* variable with bounds [lb, ub] take, summed over the subsets of the bits,
\* exactly the values 0..ub-lb; the ranges 7, 6 and 5 get the coefficients
\* 1,2,4 and 1,2,3 and 1,2,2.
C3_EncodingCoversRange ==
    (last.op = "int2bin.convert" /\ last.ok) =>
      \A i \in EncodedVars :
          LET cs == int2bin.enc[i].coeffs
              n  == qp_eq.vars[i].ub - qp_eq.vars[i].lb
          IN /\ SubsetSums(cs) = 0..n
             /\ Cardinality(BitsOf(i)) >= Len(cs)
             /\ n = 7 => cs = <<1, 2, 4>>
             /\ n = 6 => cs = <<1, 2, 3>>
             /\ n = 5 => cs = <<1, 2, 2>>

\* C3 witness: the tutorial's problem, z in [0,7] and the slacks with the
\* ranges 5 and 6
C3_Witness ==
    /\ qp = TutorialQP
    /\ last.op = "int2bin.convert" /\ last.ok
    /\ EncodedVars = {3, 4, 5}
    /\ int2bin.enc[3].coeffs = <<1, 2, 4>>
    /\ int2bin.enc[4].coeffs = <<1, 2, 2>>
    /\ int2bin.enc[5].coeffs = <<1, 2, 3>>

\* the least and the greatest value of the row l over the box of p
BoxLo(p, l) == SetMin({Dot(l, v) : v \in Box(p)})

BoxHi(p, l) == SetMax({Dot(l, v) : v \in Box(p)})

\* constraint k of qp as InequalityToEquality has to rewrite it: the slack
\* at index j gets the coefficient +1 (LE) or -1 (GE), the right-hand side
\* is rounded, an equality is kept
RewrittenAs(k, d) ==
    LET c == qp.cons[k]
        n == NumVars(qp)
        j == n + InequalitiesUpTo(qp, k)
        bare == [i \in 1..NumVars(qp_eq) |-> IF i <= n THEN c.lin[i] ELSE 0]
    IN /\ d.name = c.name
       /\ d.sense = "EQ"
       /\ CASE c.sense = "LE" ->
                 /\ d.lin = [bare EXCEPT ![j] = 1]
                 /\ d.rhs = Int2Rat(FloorOf(c.rhs))
                 /\ qp_eq.vars[j].kind = "I"
                 /\ qp_eq.vars[j].lb = 0
                 /\ qp_eq.vars[j].ub = FloorOf(c.rhs) - BoxLo(qp, c.lin)
            [] c.sense = "GE" ->
                 /\ d.lin = [bare EXCEPT ![j] = -1]
                 /\ d.rhs = Int2Rat(CeilOf(c.rhs))
                 /\ qp_eq.vars[j].kind = "I"
                 /\ qp_eq.vars[j].lb = 0
                 /\ qp_eq.vars[j].ub = BoxHi(qp, c.lin) - CeilOf(c.rhs)
            [] OTHER -> d.lin = bare /\ d.rhs = c.rhs

\* C4: InequalityToEquality.convert returns only EQ constraints: L <= r
\* becomes L + s == floor(r) with s in [0, floor(r) - lo], L >= r becomes
\* L - s == ceil(r) with s in [0, hi - ceil(r)], an EQ constraint is kept;
\* one slack is appended per inequality and the other variables are kept.
\* The tutorial's problem gets the right-hand sides 5 and 3 and the slack
\* domains [0,5] and [0,6].
C4_AllEqualities ==
    (last.op = "ineq2eq.convert" /\ last.ok) =>
      /\ Len(qp_eq.cons) = Len(qp.cons)
      /\ NumVars(qp_eq) = NumVars(qp) + InequalitiesUpTo(qp, Len(qp.cons))
      /\ \A i \in 1..NumVars(qp) : qp_eq.vars[i] = qp.vars[i]
      /\ \A k \in 1..Len(qp.cons) : RewrittenAs(k, qp_eq.cons[k])
      /\ qp = TutorialQP =>
            /\ [k \in 1..2 |-> qp_eq.cons[k].rhs] = <<Int2Rat(5), Int2Rat(3)>>
            /\ <<qp_eq.vars[4].lb, qp_eq.vars[4].ub>> = <<0, 5>>
            /\ <<qp_eq.vars[5].lb, qp_eq.vars[5].ub>> = <<0, 6>>

\* C4 witness: a converted problem with an LE, a GE constraint whose
\* right-hand sides are not integers
C4_Witness ==
    /\ last.op = "ineq2eq.convert" /\ last.ok
    /\ \E k, m \in 1..Len(qp.cons) :
          /\ qp.cons[k].sense = "LE" /\ qp.cons[k].rhs.den = 2
          /\ qp.cons[m].sense = "GE" /\ qp.cons[m].rhs.den = 2
          /\ qp_eq.cons[k].sense = "EQ" /\ qp_eq.cons[m].sense = "EQ"
    /\ NumVars(qp_eq) = NumVars(qp) + 2

\* the slack variable of inequality k of qp in qp_eq
SlackOf(k) == qp_eq.vars[NumVars(qp) + InequalitiesUpTo(qp, k)]

Inequalities == {k \in 1..Len(qp.cons) : qp.cons[k].sense # "EQ"}

----------------------------------------------------------------------------
(* LinearEqualityToPenalty.                                                *)

AllSatisfied(p, v) == \A k \in 1..Len(p.cons) : Satisfies(p.cons[k], v)

\* C6: at a binary assignment that satisfies every equality constraint of
\* the input problem the converted objective equals the input objective:
\* the penalty adds exactly zero, for every penalty factor and either sense.
C6_ZeroAtFeasible ==
    (AtQuboVector /\ AllSatisfied(qp_eq_bin, x.val)) => PenaltyContribution = 0

\* C6 witness: a satisfying assignment of a constrained problem with a
\* nonzero right-hand side, the configured factor being 100000
C6_Witness ==
    /\ AtQuboVector /\ AllSatisfied(qp_eq_bin, x.val)
    /\ \E k \in 1..Len(qp_eq_bin.cons) : qp_eq_bin.cons[k].rhs.num # 0
    /\ lineq2penalty.penalty = Penalty(DefaultPenalty)
    /\ qubo.const # qp_eq_bin.const
    /\ PenaltyContribution = 0

\* C7 as stated: at a binary assignment that violates an equality constraint
\* the penalty adds a strictly positive amount, for Minimize and Maximize.
C7_PositiveAtInfeasible ==
    (AtQuboVector /\ ~AllSatisfied(qp_eq_bin, x.val)) => PenaltyContribution > 0

\* C7 amended: at such an assignment the penalty adds a strictly positive
\* amount to a Minimize objective and a strictly negative amount to a
\* Maximize objective (the penalty factor being positive).
C7_WorseAtInfeasible ==
    (AtQuboVector /\ ~AllSatisfied(qp_eq_bin, x.val)) =>
        IF qp_eq_bin.sense = "max" THEN PenaltyContribution < 0
                                   ELSE PenaltyContribution > 0

\* C7 witness: a Maximize problem at an assignment violating a constraint
C7_Witness ==
    /\ AtQuboVector /\ ~AllSatisfied(qp_eq_bin, x.val)
    /\ qp_eq_bin.sense = "max"
    /\ PenaltyContribution < 0

\* C8: with no penalty factor configured the penalty added is
\* sign * 100000 * (b - sum a_i x_i)^2 summed over the constraints, whatever
\* the objective of the input problem is.
C8_DefaultFactor ==
    (AtQuboVector /\ ~lineq2penalty.penalty.set) =>
        PenaltyContribution =
            PenaltySign(qp_eq_bin) * DefaultPenalty * Violation(qp_eq_bin, x.val)

----------------------------------------------------------------------------
(* QuadraticProgramToQubo.interpret before a successful convert.           *)

\* C9: interpret called when no convert has succeeded on the converter (none
\* was called, or each one failed) is rejected with StateNotInitialized and
\* returns no vector: x stays the argument.
C9_InterpretBeforeConvert ==
    (last.op = "conv.interpret" /\ ~conv.ready) =>
        /\ ~last.ok
        /\ last.error = "StateNotInitialized"
        /\ x = last.arg

\* C9 witness: interpret rejected after a convert that failed in its second
\* stage, the first stage having been run
C9_Witness ==
    /\ last.op = "conv.interpret" /\ ~last.ok
    /\ last.error = "StateNotInitialized"
    /\ ~conv.ready /\ conv.ineq2eq.ready /\ ~conv.int2bin.ready
    /\ qubo = NoProblem

----------------------------------------------------------------------------
(* Names of the variables of the converted problems.                       *)

\* C10: when the names of the variables and of the constraints of the input
\* are unique, the variables of the result of InequalityToEquality.convert
\* and of the result of IntegerToBinary.convert have pairwise distinct names.
C10_DistinctNames ==
    /\ (/\ last.op = "ineq2eq.convert" /\ last.ok
        /\ Distinct(Names(qp)) /\ Distinct(ConstraintNames(qp)))
       => Distinct(Names(qp_eq))
    /\ (/\ last.op = "int2bin.convert" /\ last.ok
        /\ Distinct(Names(qp_eq)))
       => Distinct(Names(qp_eq_bin))

----------------------------------------------------------------------------
(* The problems passed to convert.                                         *)

\* C11: no call changes a problem that exists: convert of every stage and of
\* the wrapper returns a new problem, the problem it was given (qp, qp_eq,
\* qp_eq_bin) keeps its variables, bounds, objective and constraints, through
\* every later convert and interpret.
C11_InputsUnchanged ==
    [][/\ qp' = qp
       /\ qp_eq # NoProblem => qp_eq' = qp_eq
       /\ qp_eq_bin # NoProblem => qp_eq_bin' = qp_eq_bin]_vars

\* C11 witness: a problem with two constraints after the three stages and
\* the wrapper have converted: qp and qp_eq are what they were
C11_Witness ==
    /\ qp \in TwoConstraintFamily
    /\ qp_eq # NoProblem /\ qp_eq_bin # NoProblem /\ qubo # NoProblem
    /\ last.op = "conv.convert" /\ last.ok
    /\ lineq2penalty.ready /\ conv.ready
    /\ Names(qp) = <<"x", "y">>
    /\ Names(qp_eq) = <<"x", "y", SlackName("c"), SlackName("d")>>
    /\ NumVars(qp_eq_bin) > NumVars(qp_eq)

----------------------------------------------------------------------------
(* A stage instance converting a second problem.                           *)

Rejected(e) == ~last.ok /\ last.error = e /\ x = last.arg

\* the number of bits IntegerToBinary gives the variables of p
TotalBits(p) == Sum([i \in 1..NumVars(p) |-> BitCount(p.vars[i])])

\* C12: a stage holds the state of its most recent convert only. In
\* SpecReuse qp, qp_eq and qp_eq_bin are the problems ineq2eq, int2bin and
\* lineq2penalty were given last; interpret expects the variable count of
\* the conversion of that problem and maps by that problem's mapping, it
\* rejects every other vector, and every vector when that convert failed.
C12_MostRecentMapping ==
    /\ last.op = "ineq2eq.interpret" =>
          IF \E k \in 1..Len(qp.cons) :
                 qp.cons[k].sense # "EQ" /\ ReferencesUnbounded(qp, qp.cons[k])
          THEN Rejected("StateNotInitialized")
          ELSE IF Len(last.arg.val) = NumVars(qp) + InequalitiesUpTo(qp, Len(qp.cons))
          THEN last.ok /\ x = Vector("qp", SubSeq(last.arg.val, 1, NumVars(qp)))
          ELSE Rejected("DimensionMismatch")
    /\ last.op = "int2bin.interpret" =>
          IF \E i \in 1..NumVars(qp_eq) : qp_eq.vars[i].kind = "C"
          THEN Rejected("StateNotInitialized")
          ELSE IF Len(last.arg.val) = TotalBits(qp_eq)
          THEN last.ok /\ x = Vector("qp_eq", EncodedAssignment(qp_eq, last.arg.val))
          ELSE Rejected("DimensionMismatch")
    /\ last.op = "lineq2penalty.interpret" =>
          IF \/ \E i \in 1..NumVars(qp_eq_bin) : qp_eq_bin.vars[i].kind # "B"
             \/ \E k \in 1..Len(qp_eq_bin.cons) : qp_eq_bin.cons[k].sense # "EQ"
          THEN Rejected("StateNotInitialized")
          ELSE IF Len(last.arg.val) = NumVars(qp_eq_bin)
          THEN last.ok /\ x = Vector("qp_eq_bin", last.arg.val)
          ELSE Rejected("DimensionMismatch")

\* C12 witness: ineq2eq converted a problem of one variable and one
\* inequality, then a problem of two variables and one equality; the vector
\* for the first result (a value and a slack) is read as two values
C12_Witness ==
    /\ last.op = "ineq2eq.interpret" /\ last.ok
    /\ NumVars(qp_eq) = 2 /\ qp_eq.vars[2].name = SlackName("c")
    /\ NumVars(qp) = 2 /\ qp.cons[1].sense = "EQ"
    /\ x = Vector("qp", last.arg.val)

----------------------------------------------------------------------------
(* The squares in the penalty.                                             *)

\* sign * M of the conversion of qp_eq_bin by lineq2penalty
SignedFactor ==
    (IF qp_eq_bin.sense = "max" THEN -1 ELSE 1)
    * (IF lineq2penalty.penalty.set THEN lineq2penalty.penalty.value
       ELSE AutoPenalty(qp_eq_bin))

\* sum over the constraints of a_i^2, and of b * a_i
SumSquares(i) ==
    Sum([k \in 1..Len(qp_eq_bin.cons) |->
            qp_eq_bin.cons[k].lin[i] * qp_eq_bin.cons[k].lin[i]])

SumCross(i) ==
    Sum([k \in 1..Len(qp_eq_bin.cons) |->
            qp_eq_bin.cons[k].rhs.num * qp_eq_bin.cons[k].lin[i]])

JustPenalized == last.op = "lineq2penalty.convert" /\ last.ok

\* C13 as stated: x_i^2 = x_i is applied in the expansion: the penalty adds
\* nothing to the coefficient of x_i * x_i, the term M * a_i^2 * x_i^2 is
\* part of the linear coefficient of x_i.
C13_SquaresFolded ==
    JustPenalized =>
      \A i \in 1..NumVars(qubo) :
          /\ qubo.quad[i][i] = qp_eq_bin.quad[i][i]
          /\ qubo.lin[i] = qp_eq_bin.lin[i]
                           + SignedFactor * (SumSquares(i) - 2 * SumCross(i))

\* C13 amended: the squares are kept: the penalty adds sign * M * a_i^2 to
\* the coefficient of x_i * x_i and only -2 * sign * M * b * a_i to the
\* linear coefficient of x_i, summed over the constraints.
C13_SquaresKept ==
    JustPenalized =>
      \A i \in 1..NumVars(qubo) :
          /\ qubo.quad[i][i] = qp_eq_bin.quad[i][i] + SignedFactor * SumSquares(i)
          /\ qubo.lin[i] = qp_eq_bin.lin[i] - 2 * SignedFactor * SumCross(i)

\* C13 witness: the tutorial's qubo: -26*x^2 and 211*x, as printed
C13_Witness ==
    /\ JustPenalized
    /\ qp = TutorialQP
    /\ SignedFactor = -13 /\ SumSquares(1) = 2 /\ SumCross(1) = 8
    /\ qubo.quad[1][1] = TutorialQuboSquares[1]
    /\ qubo.lin[1] = TutorialQuboLin[1]

----------------------------------------------------------------------------
(* The bounds of the variables after InequalityToEquality.                 *)

\* C15: every variable of the problem returned by InequalityToEquality.convert
\* has lower bound <= upper bound, the slacks included, also when the
\* inequality cannot be satisfied inside the box of the variables.
C15_BoundsOrdered ==
    (last.op = "ineq2eq.convert" /\ last.ok) =>
      \A i \in 1..NumVars(qp_eq) :
          qp_eq.vars[i].unbounded \/ qp_eq.vars[i].lb <= qp_eq.vars[i].ub

----------------------------------------------------------------------------
(* The feasible set after InequalityToEquality.                            *)

\* the assignment v of qp's variables, with the slack at index j set to s
\* and every other slack to 0
WithSlack(v, j, s) ==
    [i \in 1..NumVars(qp_eq) |-> IF i <= Len(v) THEN v[i] ELSE IF i = j THEN s ELSE 0]

\* is there a value of constraint k's slack, inside its domain, with which
\* the rewritten constraint holds at v
SlackExists(k, v) ==
    LET j == NumVars(qp) + InequalitiesUpTo(qp, k) IN
    \E s \in 0..qp_eq.vars[j].ub : Satisfies(qp_eq.cons[k], WithSlack(v, j, s))

\* C14: InequalityToEquality.convert preserves the feasible set: an
\* assignment of the original variables inside their bounds satisfies an
\* LE/GE constraint exactly when some value of its integer slack inside
\* [0, upper bound] makes the rewritten equality hold, whether the
\* right-hand side is fractional or the coefficients are not integral.
C14_FeasibleSetPreserved ==
    (last.op = "ineq2eq.convert" /\ last.ok) =>
      \A v \in Box(qp) : \A k \in 1..Len(qp.cons) :
          IsInequality(qp.cons[k]) => (Satisfies(qp.cons[k], v) <=> SlackExists(k, v))

====
